---- MODULE Spec2Model ----
(***************************************************************************)
(* Model of workers/news-api/fetcher/fetcher.py: the RSS collector         *)
(* (fetch_rss, clean_html), the AI summarizer (summarize_with_ai,          *)
(* process_articles_with_ai), the publisher (upload_articles) and main.    *)
(*                                                                         *)
(* Text is a sequence of one-character strings, so that the regular        *)
(* expression substitution, strip() and slicing are computed character by  *)
(* character. Titles, links and names are atomic strings: the code only    *)
(* tests them for emptiness and copies them.                               *)
(*                                                                         *)
(* A behaviour is one invocation of one entry point: the script's main(),  *)
(* or one direct call of fetch_rss, process_articles_with_ai or            *)
(* upload_articles with arguments drawn from bounded sets.                 *)
(***************************************************************************)
EXTENDS Integers, Sequences, FiniteSets, TLC

VARIABLES
    API_URL,            \* module constant, line 19 (a sequence of tokens)
    API_KEY,            \* module constant, line 22 (a sequence of tokens)
    GROQ_API_KEY,       \* module constant, line 26
    ENABLE_AI_SUMMARY,  \* module constant, line 29
    entry,              \* the function this behaviour invokes
    pc,                 \* where the invocation stands
    all_articles,       \* main's all_articles / the argument or result of a direct call
    fetchLog,           \* one record per fetch_rss call: source index, response, result
    collected,          \* the batch as it entered process_articles_with_ai
    replies,            \* the provider's reply to each article of that batch
    providerLog,        \* the requests sent to the summarization provider
    posts,              \* the payloads POSTed to the ingestion endpoint
    upload,             \* the outcome of the upload_articles call
    exitCode            \* the process exit status (-1 while running)

vars == <<API_URL, API_KEY, GROQ_API_KEY, ENABLE_AI_SUMMARY, entry, pc,
          all_articles, fetchLog, collected, replies, providerLog, posts,
          upload, exitCode>>

----------------------------------------------------------------------------
(* Bounds of the model *)

\* sources of SOURCES that are configured (the script lists six)
NumSources == 2

\* entries of a feed handed to a direct fetch_rss call
MaxEntries == 2

\* characters of a raw summary text handed to clean_html
MaxLen == 4

(* Program constants *)

\* clean_html(raw_summary)[:500]
SummaryLimit == 500

\* clean_summary.strip()[:1000]
PromptLimit == 1000

----------------------------------------------------------------------------
(* Text *)

Alphabet == {"<", ">", "a", " "}

Whitespace == {" "}

RECURSIVE TextsOfLen(_)
TextsOfLen(n) ==
    IF n = 0 THEN {<<>>}
    ELSE {<<c>> \o t : c \in Alphabet, t \in TextsOfLen(n - 1)}

Texts == UNION {TextsOfLen(n) : n \in 0..MaxLen}

Min(a, b) == IF a < b THEN a ELSE b

\* s[:n]
Slice(s, n) == SubSeq(s, 1, Min(n, Len(s)))

\* "x or y" on two texts
OrText(x, y) == IF x # <<>> THEN x ELSE y

\* "c in s"
Contains(s, c) == \E i \in 1..Len(s) : s[i] = c

\* s.strip()
RECURSIVE LStrip(_)
LStrip(s) ==
    IF s # <<>> /\ Head(s) \in Whitespace THEN LStrip(Tail(s)) ELSE s

RECURSIVE RStrip(_)
RStrip(s) ==
    IF s # <<>> /\ s[Len(s)] \in Whitespace
    THEN RStrip(SubSeq(s, 1, Len(s) - 1))
    ELSE s

Strip(s) == RStrip(LStrip(s))

\* Where the match of <[^>]+> that starts at s[1] ends, 0 when there is none:
\* [^>]+ takes the run of non-'>' characters after the '<', which must be
\* non-empty and be followed by a '>'.
TagEnd(s) ==
    LET closers == {i \in 2..Len(s) : s[i] = ">"}
        first == IF closers = {} THEN 0
                 ELSE CHOOSE i \in closers : \A j \in closers : i <= j
    IN  IF s # <<>> /\ Head(s) = "<" /\ first >= 3 THEN first ELSE 0

\* re.sub(r'<[^>]+>', '', s): leftmost non-overlapping matches are removed
RECURSIVE ReSubTags(_)
ReSubTags(s) ==
    IF s = <<>> THEN <<>>
    ELSE IF TagEnd(s) > 0 THEN ReSubTags(SubSeq(s, TagEnd(s) + 1, Len(s)))
    ELSE <<Head(s)>> \o ReSubTags(Tail(s))

clean_html(text) ==
    IF text = <<>> THEN <<>> ELSE Strip(ReSubTags(text))

----------------------------------------------------------------------------
(* Exceptions: the classes the handlers name, and what each one catches *)

Parent(exc) ==
    CASE exc = "Timeout"          -> "RequestException"
      [] exc = "ConnectionError"  -> "RequestException"
      [] exc = "HTTPError"        -> "RequestException"
      [] exc = "JSONDecodeError"  -> "RequestException"
      [] exc = "RequestException" -> "Exception"
      [] exc = "ImportError"      -> "Exception"
      [] exc = "AttributeError"   -> "Exception"
      [] exc = "ValueError"       -> "Exception"
      [] exc = "ProviderError"    -> "Exception"
      [] exc = "ParseError"       -> "Exception"
      [] OTHER                    -> "BaseException"

RECURSIVE IsA(_, _)
IsA(exc, cls) ==
    IF exc = cls THEN TRUE
    ELSE IF exc = "BaseException" THEN FALSE
    ELSE IsA(Parent(exc), cls)

\* response.raise_for_status(): HTTPError for a 4xx or 5xx status
raise_for_status(status) == 400 <= status /\ status < 600

----------------------------------------------------------------------------
(* Configuration: lines 19-29 *)

\* an environment variable: unset, or set to a value
Unset == [set |-> FALSE, value |-> <<>>]

SetTo(v) == [set |-> TRUE, value |-> v]

\* os.getenv(name, default)
Getenv(var, default) == IF var.set THEN var.value ELSE default

\* os.getenv(first) or os.getenv(second, default)
GetenvOr(first, second, default) ==
    IF first.set /\ first.value # <<>> THEN first.value
    ELSE Getenv(second, default)

\* URLs and keys are token sequences; "X in s" is token membership
DefaultUrl == <<"https://", "news-api.zhusen-wang.workers.dev", "/add">>

DefaultKey == <<"56299bfa">>

PlaceholderUrl == <<"https://", "YOUR_WORKER_URL", "/add">>

PlaceholderKey == <<"YOUR_API_KEY">>

UrlEnvValues == {Unset, SetTo(<<>>), SetTo(PlaceholderUrl)}

KeyEnvValues == {Unset, SetTo(<<>>), SetTo(PlaceholderKey)}

GroqEnvValues == {Unset, SetTo(<<"gsk">>)}

\* s.lower() on the values of ENABLE_AI_SUMMARY that are tried
Lower(s) == IF s \in {<<"TRUE">>, <<"True">>} THEN <<"true">> ELSE s

EnableEnvValues ==
    {Unset, SetTo(<<"true">>), SetTo(<<"TRUE">>), SetTo(<<"1">>),
     SetTo(<<"false">>), SetTo(<<>>)}

EnableAi(var) == Lower(Getenv(var, <<"true">>)) \in {<<"true">>, <<"1">>}

AllSources ==
    << [name |-> "Hacker News", url |-> "https://news.ycombinator.com/rss"],
       [name |-> "V2EX", url |-> "https://www.v2ex.com/index.xml"],
       [name |-> "36Kr", url |-> "https://36kr.com/feed"],
       [name |-> "sspai", url |-> "https://sspai.com/feed"],
       [name |-> "TechCrunch", url |-> "https://techcrunch.com/feed/"],
       [name |-> "The Verge", url |-> "https://www.theverge.com/rss/index.xml"] >>

SOURCES == SubSeq(AllSources, 1, Min(NumSources, Len(AllSources)))

----------------------------------------------------------------------------
(* Collector: fetch_rss *)

Entry(t, l, d, s) == [title |-> t, link |-> l, description |-> d, summary |-> s]

\* the record fetch_rss appends for an entry, lines 179-186
Article(name, e) ==
    LET raw_summary == OrText(e.description, e.summary)
    IN  [title |-> e.title, url |-> e.link, source |-> name,
         summary |-> Slice(clean_html(raw_summary), SummaryLimit),
         raw_summary |-> raw_summary, external_id |-> e.link]

\* fetch_rss's loop, had it tested "if link:" alone
RECURSIVE FetchLoopKeepsUntitled(_, _)
FetchLoopKeepsUntitled(name, entries) ==
    IF entries = <<>> THEN <<>>
    ELSE (IF Head(entries).link # "" THEN <<Article(name, Head(entries))>>
          ELSE <<>>)
         \o FetchLoopKeepsUntitled(name, Tail(entries))

\* the loop over feed.entries, lines 161-186
RECURSIVE FetchLoop(_, _)
FetchLoop(name, entries) ==
    IF entries = <<>> THEN <<>>
    ELSE LET e == Head(entries)
         IN  (IF e.title # "" /\ e.link # "" THEN <<Article(name, e)>>
              ELSE <<>>)
             \o FetchLoop(name, Tail(entries))

\* fetch_rss's handlers, had the last "except Exception" been left out
FetchHandlersWithoutGeneric == <<"Timeout", "RequestException">>

\* the except clauses of fetch_rss, in order
FetchHandlers == <<"Timeout", "RequestException", "Exception">>

Caught(exc, handlers) == \E i \in 1..Len(handlers) : IsA(exc, handlers[i])

\* What requests.get and feedparser.parse did: an exception of requests.get,
\* or a status, and then whether parsing raised or which entries it gave.
GetResponse(exc, status, parses, entries) ==
    [exc |-> exc, status |-> status, parses |-> parses, entries |-> entries]

\* the exception the try block of fetch_rss raises, "none" if it completes
FetchRaises(r) ==
    IF r.exc # "none" THEN r.exc
    ELSE IF raise_for_status(r.status) THEN "HTTPError"
    ELSE IF ~r.parses THEN "ParseError"
    ELSE "none"

fetch_rss(source, r) ==
    LET exc == FetchRaises(r)
    IN  IF exc = "none"
        THEN [articles |-> FetchLoop(source.name, r.entries), escaped |-> "none"]
        ELSE IF Caught(exc, FetchHandlers)
        THEN [articles |-> <<>>, escaped |-> "none"]
        ELSE [articles |-> <<>>, escaped |-> exc]

----------------------------------------------------------------------------
(* Summarizer: summarize_with_ai, process_articles_with_ai *)

\* What the provider did for one article: the import of the client library
\* failed, the call raised, or the call returned a message content.
Reply(kind, content) == [kind |-> kind, content |-> content]

\* the summary embedded in the prompt, lines 86-89
PromptSummary(raw_summary) ==
    Slice(Strip(IF Contains(raw_summary, "<") THEN ReSubTags(raw_summary)
                ELSE raw_summary),
          PromptLimit)

\* whether summarize_with_ai reaches client.chat.completions.create
ProviderCalled(key, reply) == key # <<>> /\ reply.kind # "import_error"

summarize_with_ai(key, title, raw_summary, reply) ==
    IF key = <<>> THEN raw_summary
    ELSE IF reply.kind = "import_error" THEN raw_summary
    ELSE IF reply.kind = "error" THEN raw_summary
    ELSE LET ai_summary == Strip(reply.content)
         IN  IF ai_summary # <<>> THEN ai_summary ELSE raw_summary

\* whether process_articles_with_ai goes past its two early returns
StageActive(enabled, key) == enabled /\ key # <<>>

\* article.get("raw_summary") or article["summary"]
RawOf(article) == OrText(article.raw_summary, article.summary)

\* the loop of process_articles_with_ai, lines 224-240
ProcessEach(key, articles, rs) ==
    [i \in 1..Len(articles) |->
        [articles[i] EXCEPT
            !.summary = summarize_with_ai(key, articles[i].title,
                                          RawOf(articles[i]), rs[i])]]

\* process_articles_with_ai, had it left the credential test to
\* summarize_with_ai
process_articles_without_key_check(enabled, key, articles, rs) ==
    IF ~enabled THEN articles ELSE ProcessEach(key, articles, rs)

process_articles_with_ai(enabled, key, articles, rs) ==
    IF ~enabled THEN articles
    ELSE IF key = <<>> THEN articles
    ELSE ProcessEach(key, articles, rs)

\* the provider requests process_articles_with_ai makes, in order
RECURSIVE RequestsFrom(_, _, _, _)
RequestsFrom(key, articles, rs, i) ==
    IF i > Len(articles) THEN <<>>
    ELSE (IF ProviderCalled(key, rs[i])
          THEN << [title |-> articles[i].title,
                   summary |-> PromptSummary(RawOf(articles[i]))] >>
          ELSE <<>>)
         \o RequestsFrom(key, articles, rs, i + 1)

ProviderRequests(enabled, key, articles, rs) ==
    IF StageActive(enabled, key) THEN RequestsFrom(key, articles, rs, 1)
    ELSE <<>>

----------------------------------------------------------------------------
(* Publisher: upload_articles *)

\* What requests.post gave: an exception, or a status with a body; jsonError
\* is the class response.json() raises for a body that is not JSON
\* (requests.exceptions.JSONDecodeError from requests 2.27 on, a plain
\* ValueError before).
PostResponse(exc, status, body, jsonError) ==
    [exc |-> exc, status |-> status, body |-> body, jsonError |-> jsonError]

\* a response body: a JSON object with its counts (<<inserted, skipped>>, or
\* <<>> when the keys are absent), another JSON value, or not JSON at all
Body(kind, counts) == [kind |-> kind, counts |-> counts]

\* result.get(key, 0), the counts being <<inserted, skipped>>
DictGet(counts, i) == IF i <= Len(counts) THEN counts[i] ELSE 0

\* the exception the try block of upload_articles raises, "none" if it completes
UploadRaises(r) ==
    IF r.exc # "none" THEN r.exc
    ELSE IF raise_for_status(r.status) THEN "HTTPError"
    ELSE IF r.body.kind = "invalid" THEN r.jsonError
    ELSE IF r.body.kind # "object" THEN "AttributeError"
    ELSE "none"

\* the 401 test, had it taken 403 for a credential problem as well
IsCredentialStatusOrForbidden(status) == status \in {401, 403}

\* the 401 test of the HTTPError handler, line 277
IsCredentialStatus(status) == status = 401

Outcome(requests, result, escaped, credential, inserted, skipped) ==
    [requests |-> requests, result |-> result, escaped |-> escaped,
     credential |-> credential, inserted |-> inserted, skipped |-> skipped]

\* the request and its handlers, lines 256-283
UploadAttempt(articles, r) ==
    LET exc == UploadRaises(r)
    IN  IF exc = "none"
        THEN Outcome(<<articles>>, TRUE, "none", FALSE,
                     DictGet(r.body.counts, 1), DictGet(r.body.counts, 2))
        ELSE IF IsA(exc, "HTTPError")
        THEN Outcome(<<articles>>, FALSE, "none",
                     IsCredentialStatus(r.status), 0, 0)
        ELSE IF IsA(exc, "RequestException")
        THEN Outcome(<<articles>>, FALSE, "none", FALSE, 0, 0)
        ELSE Outcome(<<articles>>, FALSE, exc, FALSE, 0, 0)

\* upload_articles, had it not returned early on an empty batch
upload_articles_without_empty_check(articles, r) == UploadAttempt(articles, r)

upload_articles(articles, r) ==
    IF articles = <<>> THEN Outcome(<<>>, TRUE, "none", FALSE, 0, 0)
    ELSE UploadAttempt(articles, r)

----------------------------------------------------------------------------
(* main: the configuration check, lines 293-300 *)

\* "X in s" for a token sequence s
HasToken(s, tok) == \E i \in 1..Len(s) : s[i] = tok

UrlRejected(url) == url = <<>> \/ HasToken(url, "YOUR_WORKER_URL")

\* the API_KEY test, had it tested for emptiness alone
KeyRejectedOnlyWhenEmpty(key) == key = <<>>

KeyRejected(key) == key = <<>> \/ HasToken(key, "YOUR_API_KEY")

ConfigRejected(url, key) == UrlRejected(url) \/ KeyRejected(key)

----------------------------------------------------------------------------
(* The inputs that are tried *)

\* a well-formed entry whose description holds markup
EntryMarkup == Entry("T1", "L1", <<"<", "a", ">", "a", " ">>, <<>>)

\* a well-formed entry with no description: the summary field is used
EntryFallback == Entry("T2", "L2", <<>>, <<"a", "<">>)

EntryNoTitle == Entry("", "L3", <<"a">>, <<>>)

EntryNoLink == Entry("T4", "", <<"a">>, <<>>)

PoolEntries == {EntryMarkup, EntryFallback, EntryNoTitle, EntryNoLink}

PoolFeeds == UNION {[1..n -> PoolEntries] : n \in 0..MaxEntries}

\* one well-formed entry around every text
TextFeeds == {<<Entry("T1", "L1", t, <<>>)>> : t \in Texts}

GetStatuses == {200, 300, 404, 503}

NoEntries == <<>>

\* the responses tried on a direct call of fetch_rss
CallGetResponses ==
    {GetResponse("Timeout", 0, FALSE, NoEntries),
     GetResponse("ConnectionError", 0, FALSE, NoEntries),
     GetResponse("none", 200, FALSE, NoEntries)}
    \cup {GetResponse("none", st, TRUE, f) : st \in GetStatuses, f \in PoolFeeds}
    \cup {GetResponse("none", 200, TRUE, f) : f \in TextFeeds}

\* the responses tried for each source of a run of main
MainGetResponses ==
    {GetResponse("Timeout", 0, FALSE, NoEntries),
     GetResponse("ConnectionError", 0, FALSE, NoEntries),
     GetResponse("none", 404, TRUE, <<EntryMarkup>>),
     GetResponse("none", 200, FALSE, NoEntries),
     GetResponse("none", 200, TRUE, NoEntries),
     GetResponse("none", 200, TRUE, <<EntryMarkup>>),
     GetResponse("none", 200, TRUE,
                 <<EntryNoTitle, EntryFallback, EntryNoLink, EntryMarkup>>),
     GetResponse("none", 300, TRUE, <<EntryFallback>>)}

\* the batches handed to a direct call of the summarizer or the publisher
CallBatches == {FetchLoop(SOURCES[1].name, f) : f \in PoolFeeds}

Replies ==
    {Reply("import_error", <<>>), Reply("error", <<>>),
     Reply("ok", <<"a", " ">>), Reply("ok", <<" ">>)}

Bodies ==
    {Body("object", <<2, 1>>), Body("object", <<>>),
     Body("array", <<>>), Body("invalid", <<>>)}

NoBody == Body("invalid", <<>>)

PostResponses ==
    {PostResponse("Timeout", 0, NoBody, "none"),
     PostResponse("ConnectionError", 0, NoBody, "none")}
    \cup {PostResponse("none", st, b, "none") :
             st \in {200, 300}, b \in {x \in Bodies : x.kind # "invalid"}}
    \cup {PostResponse("none", st, Body("invalid", <<>>), e) :
             st \in {200, 204, 300}, e \in {"JSONDecodeError", "ValueError"}}
    \cup {PostResponse("none", st, Body("object", <<>>), "none") :
             st \in {401, 403, 500}}

----------------------------------------------------------------------------
(* The state after the module is loaded *)

NoUpload ==
    [called |-> FALSE, response |-> PostResponse("none", 0, NoBody, "none"),
     ret |-> Outcome(<<>>, FALSE, "none", FALSE, 0, 0)]

InitRun ==
    /\ fetchLog = <<>>
    /\ collected = <<>>
    /\ replies = <<>>
    /\ providerLog = <<>>
    /\ posts = <<>>
    /\ upload = NoUpload
    /\ exitCode = -1

\* the script is run: the configuration comes from the environment
InitMain ==
    /\ \E newsUrl \in UrlEnvValues, oldUrl \in UrlEnvValues :
          API_URL = GetenvOr(newsUrl, oldUrl, DefaultUrl)
    /\ \E newsKey \in KeyEnvValues, oldKey \in KeyEnvValues :
          API_KEY = GetenvOr(newsKey, oldKey, DefaultKey)
    /\ \E g \in GroqEnvValues : GROQ_API_KEY = Getenv(g, <<>>)
    /\ \E e \in EnableEnvValues : ENABLE_AI_SUMMARY = EnableAi(e)
    /\ entry = "main"
    /\ pc = "check"
    /\ all_articles = <<>>
    /\ InitRun

\* one function of the module is called directly
InitCall ==
    /\ API_URL = DefaultUrl
    /\ API_KEY = DefaultKey
    /\ \/ /\ entry = "fetch_rss"
          /\ all_articles = <<>>
          /\ GROQ_API_KEY = <<>>
          /\ ENABLE_AI_SUMMARY = TRUE
       \/ /\ entry = "process_articles_with_ai"
          /\ all_articles \in CallBatches
          /\ \E g \in GroqEnvValues : GROQ_API_KEY = Getenv(g, <<>>)
          /\ \E e \in EnableEnvValues : ENABLE_AI_SUMMARY = EnableAi(e)
       \/ /\ entry = "upload_articles"
          /\ all_articles \in CallBatches
          /\ GROQ_API_KEY = <<>>
          /\ ENABLE_AI_SUMMARY = TRUE
    /\ pc = "call"
    /\ InitRun

Init == InitMain \/ InitCall

----------------------------------------------------------------------------
(* main *)

Exit(code) == pc' = "exited" /\ exitCode' = code

\* lines 293-310
MainCheckConfig ==
    /\ entry = "main" /\ pc = "check"
    /\ IF ConfigRejected(API_URL, API_KEY)
       THEN Exit(1)
       ELSE pc' = "collect" /\ exitCode' = exitCode
    /\ UNCHANGED <<API_URL, API_KEY, GROQ_API_KEY, ENABLE_AI_SUMMARY, entry,
                   all_articles, fetchLog, collected, replies, providerLog,
                   posts, upload>>

FetchRecord(i, r, res) ==
    [source |-> i, response |-> r, returned |-> res.articles,
     escaped |-> res.escaped]

\* one iteration of the loop over SOURCES, lines 315-323
MainCollect ==
    /\ entry = "main" /\ pc = "collect"
    /\ Len(fetchLog) < Len(SOURCES)
    /\ \E r \in MainGetResponses :
          LET i == Len(fetchLog) + 1
              res == fetch_rss(SOURCES[i], r)
          IN  /\ fetchLog' = Append(fetchLog, FetchRecord(i, r, res))
              /\ IF res.escaped # "none"
                 THEN Exit(1) /\ all_articles' = all_articles
                 ELSE /\ all_articles' = all_articles \o res.articles
                      /\ pc' = IF i = Len(SOURCES) THEN "summarize" ELSE "collect"
                      /\ exitCode' = exitCode
    /\ UNCHANGED <<API_URL, API_KEY, GROQ_API_KEY, ENABLE_AI_SUMMARY, entry,
                   collected, replies, providerLog, posts, upload>>

\* the replies the provider is asked for: none when the stage returns early
ReplySeqs(enabled, key, articles) ==
    IF StageActive(enabled, key) THEN [1..Len(articles) -> Replies] ELSE {<<>>}

\* lines 329-332
MainSummarize ==
    /\ entry = "main" /\ pc = "summarize"
    /\ IF all_articles # <<>>
       THEN \E rs \in ReplySeqs(ENABLE_AI_SUMMARY, GROQ_API_KEY, all_articles) :
               /\ all_articles' = process_articles_with_ai(
                      ENABLE_AI_SUMMARY, GROQ_API_KEY, all_articles, rs)
               /\ providerLog' = ProviderRequests(
                      ENABLE_AI_SUMMARY, GROQ_API_KEY, all_articles, rs)
               /\ replies' = rs
               /\ collected' = all_articles
       ELSE UNCHANGED <<all_articles, providerLog, replies, collected>>
    /\ pc' = "publish"
    /\ UNCHANGED <<API_URL, API_KEY, GROQ_API_KEY, ENABLE_AI_SUMMARY, entry,
                   fetchLog, posts, upload, exitCode>>

Uploaded(r, ret) == [called |-> TRUE, response |-> r, ret |-> ret]

\* lines 334-345; an exception that leaves main ends the process with status 1
MainPublish ==
    /\ entry = "main" /\ pc = "publish"
    /\ IF all_articles # <<>>
       THEN \E r \in PostResponses :
               LET ret == upload_articles(all_articles, r)
               IN  /\ upload' = Uploaded(r, ret)
                   /\ posts' = posts \o ret.requests
                   /\ IF ret.escaped # "none" THEN Exit(1)
                      ELSE IF ret.result THEN Exit(0)
                      ELSE Exit(1)
       ELSE Exit(0) /\ UNCHANGED <<posts, upload>>
    /\ UNCHANGED <<API_URL, API_KEY, GROQ_API_KEY, ENABLE_AI_SUMMARY, entry,
                   all_articles, fetchLog, collected, replies, providerLog>>

----------------------------------------------------------------------------
(* Direct calls *)

CallFetchRss ==
    /\ entry = "fetch_rss" /\ pc = "call"
    /\ \E r \in CallGetResponses :
          LET res == fetch_rss(SOURCES[1], r)
          IN  /\ fetchLog' = Append(fetchLog, FetchRecord(1, r, res))
              /\ all_articles' = res.articles
              /\ pc' = IF res.escaped # "none" THEN "raised" ELSE "returned"
    /\ UNCHANGED <<API_URL, API_KEY, GROQ_API_KEY, ENABLE_AI_SUMMARY, entry,
                   collected, replies, providerLog, posts, upload, exitCode>>

CallProcessArticles ==
    /\ entry = "process_articles_with_ai" /\ pc = "call"
    /\ \E rs \in ReplySeqs(ENABLE_AI_SUMMARY, GROQ_API_KEY, all_articles) :
          /\ all_articles' = process_articles_with_ai(
                 ENABLE_AI_SUMMARY, GROQ_API_KEY, all_articles, rs)
          /\ providerLog' = ProviderRequests(
                 ENABLE_AI_SUMMARY, GROQ_API_KEY, all_articles, rs)
          /\ replies' = rs
          /\ collected' = all_articles
    /\ pc' = "returned"
    /\ UNCHANGED <<API_URL, API_KEY, GROQ_API_KEY, ENABLE_AI_SUMMARY, entry,
                   fetchLog, posts, upload, exitCode>>

CallUploadArticles ==
    /\ entry = "upload_articles" /\ pc = "call"
    /\ \E r \in PostResponses :
          LET ret == upload_articles(all_articles, r)
          IN  /\ upload' = Uploaded(r, ret)
              /\ posts' = posts \o ret.requests
              /\ pc' = IF ret.escaped # "none" THEN "raised" ELSE "returned"
    /\ UNCHANGED <<API_URL, API_KEY, GROQ_API_KEY, ENABLE_AI_SUMMARY, entry,
                   all_articles, fetchLog, collected, replies, providerLog,
                   exitCode>>

Next ==
    \/ MainCheckConfig
    \/ MainCollect
    \/ MainSummarize
    \/ MainPublish
    \/ CallFetchRss
    \/ CallProcessArticles
    \/ CallUploadArticles

Spec == Init /\ [][Next]_vars

----------------------------------------------------------------------------
(* What the claims speak of, stated without the operators of the model *)

\* process_articles_with_ai was called and has returned
ProcessReturned ==
    \/ entry = "process_articles_with_ai" /\ pc = "returned"
    \/ entry = "main" /\ pc \in {"publish", "exited"} /\ collected # <<>>

AiConfigured == ENABLE_AI_SUMMARY = TRUE /\ GROQ_API_KEY # <<>>

\* the provider call raised, the library was missing, or the output was empty
ReplyFailed(reply) ==
    \/ reply.kind \in {"import_error", "error"}
    \/ reply.kind = "ok" /\ \A i \in 1..Len(reply.content) : reply.content[i] = " "

Is2xx(status) == 200 <= status /\ status <= 299

IsErrorStatus(status) == 400 <= status /\ status <= 599

\* a source failed, as the specification counts it: any status outside 2xx
SourceFailedSpec(r) == r.exc # "none" \/ ~Is2xx(r.status) \/ ~r.parses

\* a source failed with an error status, an exception of the request, or an
\* exception while parsing
SourceFailed(r) == r.exc # "none" \/ IsErrorStatus(r.status) \/ ~r.parses

ConfigMissing ==
    \/ API_URL = <<>> \/ API_URL = PlaceholderUrl
    \/ API_KEY = <<>> \/ API_KEY = PlaceholderKey

RECURSIVE ConcatReturned(_)
ConcatReturned(log) ==
    IF log = <<>> THEN <<>>
    ELSE Head(log).returned \o ConcatReturned(Tail(log))

\* main is past the loop over SOURCES
CollectDone == entry = "main" /\ pc \in {"summarize", "publish", "exited"} /\ ~ConfigMissing

\* the batch as the Collector built it
CollectedBatch == IF pc = "summarize" THEN all_articles ELSE collected

WellFormed(e) == e.title # "" /\ e.link # ""

----------------------------------------------------------------------------
(* C1 *)

\* C1: with AI summarization enabled and a credential configured, an article
\* whose provider call failed or gave empty output keeps the summary it had
\* before process_articles_with_ai.
C1_FailedArticleKeepsSummary ==
    (ProcessReturned /\ AiConfigured) =>
        \A i \in 1..Len(collected) :
            ReplyFailed(replies[i]) =>
                all_articles[i].summary = collected[i].summary

(* C2 *)

\* C2: no summary stored by fetch_rss contains a '<' or a '>' character.
C2_SummaryHasNoAngleBracket ==
    \A k \in 1..Len(fetchLog) :
        \A i \in 1..Len(fetchLog[k].returned) :
            LET summary == fetchLog[k].returned[i].summary
            IN  \A j \in 1..Len(summary) : summary[j] \notin {"<", ">"}

(* C3 *)

\* fetch_rss never raises, main calls it once per source in configuration
\* order, and the combined batch holds every record that was returned
FetchIsolation ==
    /\ \A k \in 1..Len(fetchLog) :
          fetchLog[k].escaped = "none" /\ fetchLog[k].source = k
    /\ CollectDone =>
          /\ Len(fetchLog) = Len(SOURCES)
          /\ CollectedBatch = ConcatReturned(fetchLog)

C4_DisabledIsIdentity ==
    (ProcessReturned /\ ~AiConfigured) =>
        /\ all_articles = collected
        /\ providerLog = <<>>

C4_Witness ==
    /\ entry = "process_articles_with_ai" /\ pc = "returned"
    /\ ENABLE_AI_SUMMARY = TRUE /\ GROQ_API_KEY = <<>>
    /\ Len(all_articles) = 2
    /\ all_articles[1].summary # all_articles[1].raw_summary

(* C5 *)

\* C5: for a non-empty batch upload_articles issues exactly one POST, returns
\* to its caller, and reports success exactly when the response had a 2xx
\* status (the counts defaulting to 0).
C5_SuccessIff2xx ==
    (upload.called /\ all_articles # <<>>) =>
        /\ Len(posts) = 1
        /\ upload.ret.escaped = "none"
        /\ upload.ret.result =
              (upload.response.exc = "none" /\ Is2xx(upload.response.status))

(* C6 *)

\* C6: a 401 answer to the POST is reported as failure with the credential
\* diagnostic; no other outcome emits the credential diagnostic.
C6_CredentialDiagnosticOnlyOn401 ==
    upload.called =>
        IF posts # <<>> /\ upload.response.exc = "none"
           /\ upload.response.status = 401
        THEN /\ upload.ret.credential
             /\ ~upload.ret.result
             /\ upload.ret.escaped = "none"
        ELSE ~upload.ret.credential

C6_Witness ==
    /\ upload.called /\ posts # <<>>
    /\ upload.response.status = 401
    /\ upload.ret.credential /\ ~upload.ret.result

(* C7 *)

\* C7: upload_articles called with an empty batch sends nothing and reports
\* success; a run of main in which every source yields zero records never
\* POSTs.
C7_EmptyBatchSendsNothing ==
    /\ (entry = "upload_articles" /\ pc # "call" /\ all_articles = <<>>) =>
          /\ pc = "returned"
          /\ posts = <<>>
          /\ upload.ret.result
    /\ (entry = "main"
        /\ \A k \in 1..Len(fetchLog) : fetchLog[k].returned = <<>>) =>
          posts = <<>>

C7_Witness ==
    /\ entry = "upload_articles" /\ pc = "returned"
    /\ all_articles = <<>> /\ upload.called /\ upload.ret.result

C7_MainWitness ==
    /\ entry = "main" /\ pc = "exited" /\ exitCode = 0
    /\ Len(fetchLog) = Len(SOURCES) /\ posts = <<>>

(* C8 *)

\* C8: with the endpoint URL or the API key empty or a placeholder, main
\* exits with a non-zero status and no feed GET, provider call or POST is
\* ever made.
C8_BadConfigExitsBeforeNetwork ==
    (entry = "main" /\ ConfigMissing) =>
        /\ fetchLog = <<>> /\ providerLog = <<>> /\ posts = <<>>
        /\ pc \in {"check", "exited"}
        /\ pc = "exited" => exitCode # 0

C8_Witness ==
    /\ entry = "main" /\ pc = "exited" /\ exitCode = 1
    /\ API_URL = DefaultUrl /\ API_KEY = PlaceholderKey

(* C9 *)

\* C9: with a valid configuration the run exits non-zero exactly when the
\* batch is non-empty and upload_articles reported failure; no error of the
\* Collector escapes fetch_rss.
C9_ExitStatusIsPublishersReport ==
    (entry = "main" /\ pc = "exited" /\ ~ConfigMissing) =>
        /\ \A k \in 1..Len(fetchLog) : fetchLog[k].escaped = "none"
        /\ (exitCode # 0) =
              (/\ all_articles # <<>>
               /\ upload.called
               /\ upload.ret.escaped = "none"
               /\ ~upload.ret.result)

(* C10 *)

\* the records fetch_rss builds from the well-formed entries of a feed
RECURSIVE ExpectedRecords(_, _)
ExpectedRecords(name, entries) ==
    IF entries = <<>> THEN <<>>
    ELSE (IF WellFormed(Head(entries))
          THEN <<[title |-> Head(entries).title, url |-> Head(entries).link,
                  source |-> name, external_id |-> Head(entries).link]>>
          ELSE <<>>)
         \o ExpectedRecords(name, Tail(entries))

Identity(article) ==
    [title |-> article.title, url |-> article.url, source |-> article.source,
     external_id |-> article.external_id]

\* C10: a successfully fetched feed gives exactly its entries with non-empty
\* title and link, in document order, each with url = external_id = link and
\* source = the feed's name; main's batch lists the sources' records in
\* configuration order.
C10_WellFormedEntriesInOrder ==
    /\ \A k \in 1..Len(fetchLog) :
          LET r == fetchLog[k].response
              got == fetchLog[k].returned
          IN  /\ (r.exc = "none" /\ Is2xx(r.status) /\ r.parses) =>
                    [i \in 1..Len(got) |-> Identity(got[i])]
                        = ExpectedRecords(SOURCES[fetchLog[k].source].name,
                                          r.entries)
              /\ \A i \in 1..Len(got) :
                    /\ got[i].title # "" /\ got[i].url # ""
                    /\ got[i].external_id = got[i].url
                    /\ got[i].source = SOURCES[fetchLog[k].source].name
    /\ CollectDone => CollectedBatch = ConcatReturned(fetchLog)

C10_Witness ==
    /\ entry = "main" /\ pc = "publish"
    /\ Len(fetchLog[1].returned) = 1
    /\ Len(fetchLog[2].response.entries) = 4
    /\ Len(fetchLog[2].returned) = 2
    /\ Len(all_articles) >= 3
    /\ all_articles[1].source = SOURCES[1].name
    /\ all_articles[2].source = SOURCES[2].name

====
